---- MODULE Spec2Model ----
(***************************************************************************)
(* Hybrid retrieval and incremental indexing engine of the DAZ visual      *)
(* asset browser.                                                          *)
(*                                                                         *)
(* The module holds six state machines over one set of variables:          *)
(*   SpecFilter  build_where_clause (query_utils.py) on facet inputs       *)
(*   SpecSearch  search (query_utils.py, ChromaDbManager.search) against a *)
(*               Chroma collection                                         *)
(*   Spec        the checkpoint-driven update flow (api_tasks.py) and the  *)
(*               CLI load command (main.py)                                *)
(*   SpecEmbed   main and its batch embedding stage                        *)
(*               (postgres_db_manager.py)                                  *)
(*   SpecTransform  determine_compatibility and determine_categories of    *)
(*               the ETL transform (postgres_db_manager.py) and the        *)
(*               metadata prepared for an upsert on each indexing path     *)
(*   SpecModel   generate_embeddings and get_embedding_model called from   *)
(*               the worker threads of the server (embedding_utils.py)     *)
(* Every machine leaves the variables of the other machines unchanged.     *)
(*                                                                         *)
(* Call sites are bound to the function body they name: main.load_command  *)
(* and api_tasks.run_update_flow hand the checkpoint they read to the      *)
(* loader, which works on the rows selected by that checkpoint.            *)
(***************************************************************************)
EXTENDS Integers, Sequences, FiniteSets, TLC

VARIABLES
    \* ---- build_where_clause ----
    facets,         \* the four keyword arguments of build_where_clause
    where_clause,   \* its return value
    built,          \* TRUE once build_where_clause has returned
    \* ---- search ----
    coll_exists,    \* the Chroma collection exists in the persistent client
    corpus,         \* records of the collection, nearest first
    response,       \* outcome of the last search call
    \* ---- checkpoint-driven indexing ----
    now,            \* the wall clock, datetime.now(timezone.utc)
    checkpoint_file,\* content of CHECKPOINT_FILE, NoFile when it does not exist
    product,        \* the staging table `product` of products.db, by sku
    index,          \* the Chroma collection: sku -> upserted record
    task,           \* update_tasks of server.py with each flow's position
    cli,            \* the `load` command of the CLI
    stable,         \* a run has completed and the staging table is as it was then
    \* ---- batch embedding stage ----
    enriched,       \* the staging table `enriched_products`, by sku
    embed,          \* generate_and_store_embeddings: argument, position, outcome
    \* ---- ETL transform ----
    compat_call,    \* determine_compatibility: argument and return value
    category_call,  \* determine_categories: argument and return value
    etl_row,        \* one product of the ETL loop and the row stored for it
    meta_call,      \* one record's metadata as prepared for collection.upsert
    \* ---- embedding model cache ----
    cached_model,   \* the module global _model of embedding_utils, 0 is None
    loads,          \* SentenceTransformer instances constructed so far
    caller,         \* each thread's position in generate_embeddings
    env_model_name, \* the environment variable EMBEDDING_MODEL_NAME
    encoded         \* the last call of model.encode: its caller and arguments

filterVars == <<facets, where_clause, built>>
searchVars == <<coll_exists, corpus, response>>
indexVars == <<now, checkpoint_file, product, index, task, cli, stable>>
embedVars == <<enriched, embed>>
transformVars == <<compat_call, category_call, etl_row, meta_call>>
modelVars == <<cached_model, loads, caller, env_model_name, encoded>>
vars == <<filterVars, searchVars, indexVars, embedVars, transformVars, modelVars>>
notFilter == <<searchVars, indexVars, embedVars, transformVars, modelVars>>
notSearch == <<filterVars, indexVars, embedVars, transformVars, modelVars>>
notIndex == <<filterVars, searchVars, embedVars, transformVars, modelVars>>
notEmbed == <<filterVars, searchVars, transformVars, modelVars>>
notTransform == <<filterVars, searchVars, indexVars, embedVars, modelVars>>
notModel == <<filterVars, searchVars, indexVars, embedVars, transformVars>>

Min(a, b) == IF a < b THEN a ELSE b
Max(a, b) == IF a > b THEN a ELSE b

(***************************************************************************)
(* Facet filter builder                                                    *)
(***************************************************************************)
MaxFacetLen == 2
FacetValues == {"a", "b"}

\* Optional[List[str]]: None is [some |-> FALSE]
None == [some |-> FALSE, val |-> <<>>]
Some(l) == [some |-> TRUE, val |-> l]

ListsUpTo(S, n) == UNION {[1..k -> S] : k \in 0..n}
FacetArgs == {None} \cup {Some(l) : l \in ListsUpTo(FacetValues, MaxFacetLen)}

\* Python truthiness of an Optional[List]: None and [] are falsy
Truthy(arg) == arg.some /\ Len(arg.val) > 0

\* Filter tree nodes share one record shape
NoFilter == [kind |-> "none", field |-> "", op |-> "", value |-> "", children |-> <<>>]
Leaf(f, o, v) == [kind |-> "leaf", field |-> f, op |-> o, value |-> v, children |-> <<>>]
OrNode(cs) == [kind |-> "or", field |-> "", op |-> "", value |-> "", children |-> cs]
AndNode(cs) == [kind |-> "and", field |-> "", op |-> "", value |-> "", children |-> cs]

\* every field matched by substring
LeafOp_AlwaysContains(field_name) == "$contains"

\* the operator chosen for a field
LeafOp(field_name) == IF field_name = "category" THEN "$eq" ELSE "$contains"

\* the list `conditions` built from the values of one facet
Conditions(field_name, values) ==
    [i \in 1..Len(values) |-> Leaf(field_name, LeafOp(field_name), values[i])]

\* every group wrapped in $or
create_or_condition_AlwaysOr(and_conditions, field_name, arg) ==
    IF ~Truthy(arg) THEN and_conditions
    ELSE Append(and_conditions, OrNode(Conditions(field_name, arg.val)))

\* create_or_condition: and_conditions after the call
create_or_condition(and_conditions, field_name, arg) ==
    IF ~Truthy(arg) THEN and_conditions
    ELSE LET conditions == Conditions(field_name, arg.val)
         IN  IF Len(conditions) > 1 THEN Append(and_conditions, OrNode(conditions))
             ELSE IF Len(conditions) > 0 THEN Append(and_conditions, conditions[1])
             ELSE and_conditions

\* the two "nothing to filter" returns left out
build_where_clause_NoEmptyCheck(t, a, c, f) ==
    LET c1 == create_or_condition(<<>>, "tags", t)
        c2 == create_or_condition(c1, "artist", a)
        c3 == create_or_condition(c2, "category", c)
        and_conditions == create_or_condition(c3, "compatible_figures", f)
    IN  IF Len(and_conditions) = 1 THEN and_conditions[1]
        ELSE AndNode(and_conditions)

build_where_clause(t, a, c, f) ==
    IF ~(Truthy(t) \/ Truthy(a) \/ Truthy(c) \/ Truthy(f)) THEN NoFilter
    ELSE LET c1 == create_or_condition(<<>>, "tags", t)
             c2 == create_or_condition(c1, "artist", a)
             c3 == create_or_condition(c2, "category", c)
             and_conditions == create_or_condition(c3, "compatible_figures", f)
         IN  IF Len(and_conditions) = 0 THEN NoFilter
             ELSE IF Len(and_conditions) = 1 THEN and_conditions[1]
             ELSE AndNode(and_conditions)

InitFilter ==
    /\ facets \in [tags : FacetArgs, artists : FacetArgs,
                   categories : FacetArgs, compatible_figures : FacetArgs]
    /\ where_clause = NoFilter
    /\ built = FALSE

BuildWhere ==
    /\ ~built
    /\ where_clause' = build_where_clause(facets.tags, facets.artists,
                                          facets.categories, facets.compatible_figures)
    /\ built' = TRUE
    /\ UNCHANGED <<facets, notFilter>>

NextFilter == BuildWhere

(***************************************************************************)
(* Query pipeline                                                          *)
(***************************************************************************)
MaxSmall == 4       \* a small collection holds 0..MaxSmall records tagged "a" at distance 1
MaxNear == 21       \* a large one holds MaxNear of them, more than the over-fetch of an empty page
MaxFar == 1         \* records tagged "a" at distance 2
MaxOther == 1       \* untagged records at distance 1
MaxLimit == 5
MaxOffset == 1
MaxNeg == 1         \* limit and offset go down to -MaxNeg: QueryRequest has no lower bound
MaxThreshold == 2
NameKeys == 3       \* metadata "name" takes values 1..NameKeys-1, 0 is no value
MaxMul == 1         \* name of record i is (i * mul) % NameKeys, mul in 0..MaxMul

Limits == (-MaxNeg)..MaxLimit
Offsets == (-MaxNeg)..MaxOffset
Thresholds == 0..MaxThreshold
NearCounts == (0..MaxSmall) \cup {MaxNear}
SortBys == {"relevance", "name", "mature"}
SortOrders == {"ascending", "descending"}

\* one record of the collection as the query returns it
\* name is a TEXT column, mature the INTEGER column (0 or 1)
Hit(i, d, tg, nm, mt) ==
    [id |-> i, distance |-> d, metadata |-> [tags |-> tg, name |-> nm, mature |-> mt]]

\* a collection of nOther untagged and nNear tagged records at distance 1
\* followed by nFar tagged records at distance 2; names cycle with step mul,
\* with mul = 0 no record has a name and none is mature
MakeCorpus(nOther, nNear, nFar, mul) ==
    [i \in 1..(nOther + nNear + nFar) |->
        Hit(i,
            IF i <= nOther + nNear THEN 1 ELSE 2,
            IF i <= nOther THEN {} ELSE {"a"},
            (i * mul) % NameKeys,
            (i * mul) % 2)]

\* Chroma's evaluation of a where filter on one record's metadata
RECURSIVE Matches(_, _)
Matches(w, meta) ==
    CASE w.kind = "none" -> TRUE
      [] w.kind = "leaf" -> IF w.field = "tags" THEN w.value \in meta.tags ELSE FALSE
      [] w.kind = "or"   -> \E i \in 1..Len(w.children) : Matches(w.children[i], meta)
      [] w.kind = "and"  -> \A i \in 1..Len(w.children) : Matches(w.children[i], meta)

Take(s, n) == SubSeq(s, 1, Min(n, Len(s)))

\* collection.query: the n_results nearest records that satisfy the filter
ChromaQuery(recs, n_results, w) ==
    Take(SelectSeq(recs, LAMBDA r : Matches(w, r.metadata)), n_results)

\* Python s[start:stop]
PyIndex(i, n) == IF i < 0 THEN Max(n + i, 0) ELSE Min(i, n)
PySlice(s, start, stop) ==
    SubSeq(s, PyIndex(start, Len(s)) + 1, PyIndex(stop, Len(s)))

\* x["metadata"].get(sort_by) or "": the value, 0 standing for "" when the
\* value is missing or falsy
SortKey(r, sort_by) ==
    IF sort_by = "name" THEN r.metadata.name
    ELSE IF sort_by = "mature" THEN r.metadata.mature
    ELSE 0

\* the Python type of that key
KeyType(r, sort_by) ==
    IF sort_by = "mature" /\ r.metadata.mature # 0 THEN "int" ELSE "str"

\* list.sort raises TypeError when it has to compare a str with an int
SortRaises(s, sort_by) ==
    \E i, j \in 1..Len(s) : KeyType(s[i], sort_by) # KeyType(s[j], sort_by)

\* list.sort(key=..., reverse=...): stable in both directions
RECURSIVE InsertSorted(_, _, _, _)
InsertSorted(sorted, r, sort_by, reverse) ==
    IF sorted = <<>> THEN <<r>>
    ELSE LET h == Head(sorted)
             before == IF reverse THEN SortKey(h, sort_by) >= SortKey(r, sort_by)
                                  ELSE SortKey(h, sort_by) <= SortKey(r, sort_by)
         IN  IF before THEN <<h>> \o InsertSorted(Tail(sorted), r, sort_by, reverse)
             ELSE <<r>> \o sorted

RECURSIVE PySort(_, _, _)
PySort(s, sort_by, reverse) ==
    IF s = <<>> THEN <<>>
    ELSE InsertSorted(PySort(SubSeq(s, 1, Len(s) - 1), sort_by, reverse),
                      s[Len(s)], sort_by, reverse)

Requests ==
    [tags : {None, Some(<<"a">>)}, limit : Limits, offset : Offsets,
     score_threshold : Thresholds, sort_by : SortBys, sort_order : SortOrders]

EmptyResult(req) ==
    [raised |-> FALSE, total_hits |-> 0, limit |-> req.limit, offset |-> req.offset,
     results |-> <<>>, req |-> req, missing |-> TRUE, served |-> TRUE,
     fetched |-> {}, kept |-> {}]

\* the call raised: no response reaches the caller
Raised(req, miss) ==
    [raised |-> TRUE, total_hits |-> 0, limit |-> req.limit, offset |-> req.offset,
     results |-> <<>>, req |-> req, missing |-> miss, served |-> TRUE,
     fetched |-> {}, kept |-> {}]

\* the over-fetch without its buffer
query_limit_NoBuffer(req) == req.offset + req.limit

\* only the page length is fetched
query_limit_LimitOnly(req) == req.limit

query_limit(req) == (req.offset + req.limit) * 5 + 20

Ids(hits) == {hits[i].id : i \in 1..Len(hits)}

\* a strict threshold
KeepHit_Strict(dist, score_threshold) == dist < score_threshold

\* the hits kept by the score filter
KeepHit(dist, score_threshold) == dist <= score_threshold
ScoreFilter(fetched, score_threshold) ==
    SelectSeq(fetched, LAMBDA r : KeepHit(r.distance, score_threshold))

Reverse(l) == [i \in 1..Len(l) |-> l[Len(l) + 1 - i]]

\* sort_order applied to the relevance order as well
SortStep_ReverseRelevance(processed_results, sort_by, sort_order) ==
    IF sort_by # "relevance"
    THEN PySort(processed_results, sort_by, sort_order = "descending")
    ELSE IF sort_order = "descending" THEN Reverse(processed_results)
    ELSE processed_results

\* the sorting step
SortStep(processed_results, sort_by, sort_order) ==
    IF sort_by # "relevance"
    THEN PySort(processed_results, sort_by, sort_order = "descending")
    ELSE processed_results

\* the pagination step
Paginate(processed_results, offset, limit) ==
    PySlice(processed_results, offset, offset + limit)

\* the body of search from the query embedding on, shared by both searches
SearchBody(recs, req) ==
    LET where_filter == build_where_clause(req.tags, None, None, None)
    IN  IF query_limit(req) <= 0 THEN Raised(req, FALSE)
        ELSE LET fetched == ChromaQuery(recs, query_limit(req), where_filter)
                 filtered == ScoreFilter(fetched, req.score_threshold)
                 processed_results == SortStep(filtered, req.sort_by, req.sort_order)
             IN  IF req.sort_by # "relevance" /\ SortRaises(filtered, req.sort_by)
                 THEN Raised(req, FALSE)
                 ELSE
                 [raised |-> FALSE,
                  total_hits |-> Len(processed_results),
                  limit |-> req.limit, offset |-> req.offset,
                  results |-> Paginate(processed_results, req.offset, req.limit),
                  req |-> req, missing |-> FALSE, served |-> TRUE,
                  fetched |-> Ids(fetched), kept |-> Ids(processed_results)]

\* query_utils.search
search(exists, recs, req) ==
    IF ~exists THEN EmptyResult(req) ELSE SearchBody(recs, req)

\* ChromaDbManager.search: the collection handle is used without a guard
manager_search(exists, recs, req) ==
    IF ~exists THEN Raised(req, TRUE) ELSE SearchBody(recs, req)

NoResponse ==
    [raised |-> FALSE, total_hits |-> 0, limit |-> 0, offset |-> 0, results |-> <<>>,
     req |-> CHOOSE r \in Requests : TRUE, missing |-> FALSE, served |-> FALSE,
     fetched |-> {}, kept |-> {}]

InitSearch ==
    /\ coll_exists = TRUE
    /\ \E nOther \in 0..MaxOther, nNear \in NearCounts, nFar \in 0..MaxFar,
          mul \in 0..MaxMul :
          corpus = MakeCorpus(nOther, nNear, nFar, mul)
    /\ response = NoResponse

\* POST /api/v1/query and the CLI query command
Search ==
    /\ ~response.served
    /\ \E req \in Requests : response' = search(coll_exists, corpus, req)
    /\ UNCHANGED <<coll_exists, corpus, notSearch>>

ManagerSearch ==
    /\ ~response.served
    /\ \E req \in Requests : response' = manager_search(coll_exists, corpus, req)
    /\ UNCHANGED <<coll_exists, corpus, notSearch>>

\* ChromaDbManager.delete_collection, rebuild_chroma's delete before recreate
DeleteCollection ==
    /\ coll_exists
    /\ ~response.served
    /\ coll_exists' = FALSE
    /\ corpus' = <<>>
    /\ response' = NoResponse
    /\ UNCHANGED notSearch

NextSearch == Search \/ ManagerSearch \/ DeleteCollection

(***************************************************************************)
(* Checkpoint store, staging table and the two checkpoint-driven runs      *)
(***************************************************************************)
MaxTime == 5        \* the clock stops here
Epoch == 0          \* "1970-01-01T00:00:00Z"
TenYearsAgo == 1    \* now - timedelta(days=3650), before every modelled event
StartTime == TenYearsAgo + 1    \* the clock at process start
NoFile == -1        \* os.path.exists(CHECKPOINT_FILE) is false
Skus == {"s1", "s2"}
Tasks == {"t1", "t2"}

\* a staging row; ea = 0 is enriched_at NULL, text = FALSE is embedding_text NULL
NoRow == [present |-> FALSE, lu |-> 0, ea |-> 0, text |-> FALSE]
Row(lu, ea, text) == [present |-> TRUE, lu |-> lu, ea |-> ea, text |-> text]

\* utilities.get_checkpoint
get_checkpoint(file) == IF file # NoFile THEN file ELSE Epoch

\* main.get_checkpoint
main_get_checkpoint(file) == IF file # NoFile THEN file ELSE TenYearsAgo

\* database_utils.load_sqlite_to_chroma: the SELECT
database_utils_select(rows, checkpoint_date) ==
    {s \in Skus : /\ rows[s].present
                  /\ (rows[s].lu > checkpoint_date
                      \/ (rows[s].ea # 0 /\ rows[s].ea > checkpoint_date))
                  /\ rows[s].text}

\* SQLiteWrapper.get_post_checkpoint_rows
get_post_checkpoint_rows(rows, checkpoint) ==
    {s \in Skus : rows[s].present /\ rows[s].lu > checkpoint}

\* collection.upsert(ids, embeddings, metadatas, documents): the record stored
\* for a sku is its cleaned row and its embedding_text
Upsert(idx, rows, selected) ==
    [s \in DOMAIN idx |-> IF s \in selected THEN rows[s] ELSE idx[s]]

NoTask == [status |-> "none", stage |-> "none", checkpoint |-> NoFile,
           load |-> "none", wrote |-> FALSE]

IdleCli == [pc |-> "idle", checkpoint |-> NoFile, load |-> "none", wrote |-> FALSE]

InitIndex ==
    /\ now = StartTime
    /\ checkpoint_file = NoFile
    /\ product = [s \in Skus |-> NoRow]
    /\ index = [s \in Skus |-> NoRow]
    /\ task = [t \in Tasks |-> NoTask]
    /\ cli = IdleCli
    /\ stable = FALSE

\* a run that has read the checkpoint and has not yet written it or failed
Active(tk) == tk.status = "running" /\ tk.stage \in {"scrape", "load"} /\ ~tk.wrote
OthersQuiet(t) == /\ \A u \in Tasks \ {t} : ~Active(task[u])
                  /\ (t \in Tasks => cli.pc = "idle")

\* SQLitePipeline.process_item: INSERT OR REPLACE of one scraped product
ScrapeRow(rows, s, text) == [rows EXCEPT ![s] = Row(now, 0, text)]

\* scrape_command of the CLI: one product is scraped and saved
Scrape ==
    /\ now < MaxTime
    /\ \E s \in Skus, text \in BOOLEAN : product' = ScrapeRow(product, s, text)
    /\ now' = now + 1
    /\ stable' = FALSE
    /\ UNCHANGED <<checkpoint_file, index, task, cli, notIndex>>

\* enrich_data.main: one row with enriched_at NULL is enriched
Enrich ==
    /\ now < MaxTime
    /\ \E s \in Skus :
          /\ product[s].present /\ product[s].ea = 0
          /\ product' = [product EXCEPT ![s].ea = now]
    /\ now' = now + 1
    /\ stable' = FALSE
    /\ UNCHANGED <<checkpoint_file, index, task, cli, notIndex>>

\* fetch_daz_data.pre_fetch_faz_data, DAZ script succeeded and wrote its file
PreFetch ==
    /\ now < MaxTime
    /\ checkpoint_file' = now
    /\ now' = now + 1
    /\ UNCHANGED <<product, index, task, cli, stable, notIndex>>

\* server.start_update
StartUpdate(t) ==
    /\ task[t].status = "none"
    /\ task' = [task EXCEPT ![t].status = "pending", ![t].stage = "start"]
    /\ UNCHANGED <<now, checkpoint_file, product, index, cli, stable, notIndex>>

\* run_update_flow, lines 18-27: run_fetch_process is a stub that returns True
UFetch(t) ==
    /\ task[t].status = "pending"
    /\ task' = [task EXCEPT ![t].status = "running", ![t].stage = "fetch"]
    /\ UNCHANGED <<now, checkpoint_file, product, index, cli, stable, notIndex>>

\* the exception is swallowed and the flow goes on
OnException_Swallowed(tk) == tk

\* run_update_flow, lines 64-65: except Exception
OnException(tk) == [tk EXCEPT !.status = "failed"]

\* run_update_flow, lines 29-49: product file, checkpoint, scraper
UScrape(t) ==
    /\ task[t].status = "running" /\ task[t].stage = "fetch"
    /\ \/ \* FileNotFoundError -> RuntimeError
          /\ task' = [task EXCEPT ![t] = OnException([@ EXCEPT !.stage = "scrape"])]
          /\ UNCHANGED <<now, product, stable>>
       \/ \* urls_to_scrape is empty
          /\ task' = [task EXCEPT ![t].stage = "scrape",
                                  ![t].checkpoint = get_checkpoint(checkpoint_file)]
          /\ UNCHANGED <<now, product, stable>>
       \/ \* run_scraper saves one product
          /\ now < MaxTime
          /\ \E s \in Skus, text \in BOOLEAN : product' = ScrapeRow(product, s, text)
          /\ now' = now + 1
          /\ stable' = FALSE
          /\ task' = [task EXCEPT ![t].stage = "scrape",
                                  ![t].checkpoint = get_checkpoint(checkpoint_file)]
    /\ UNCHANGED <<checkpoint_file, index, cli, notIndex>>

\* ChromaDbManager.load_sqlite_to_chroma on the rows valid_products:
\* "raised" (generate_embeddings raised), "false" (upsert raised, the method
\* returned False) or "true"
ManagerLoadOutcomes(rows, valid_products) ==
    IF \E s \in valid_products : ~rows[s].text THEN {"raised"}
    ELSE {"raised", "false", "true"}

\* run_update_flow, lines 51-53
ULoad(t) ==
    /\ task[t].status = "running" /\ task[t].stage = "scrape"
    /\ LET valid_products == get_post_checkpoint_rows(product, task[t].checkpoint)
       IN  \E outcome \in ManagerLoadOutcomes(product, valid_products) :
              /\ index' = IF outcome = "true" /\ valid_products # {}
                          THEN Upsert(index, product, valid_products) ELSE index
              /\ LET tk == [task[t] EXCEPT
                               !.stage = "load",
                               !.load = IF valid_products = {} /\ outcome # "raised"
                                        THEN "empty" ELSE outcome]
                 IN  task' = [task EXCEPT
                                 ![t] = IF outcome = "raised" THEN OnException(tk) ELSE tk]
    /\ UNCHANGED <<now, checkpoint_file, product, cli, stable, notIndex>>

\* the checkpoint file is left as it was
set_checkpoint_NoWrite == checkpoint_file' = checkpoint_file /\ now' = now + 1

\* utilities.set_checkpoint
set_checkpoint == checkpoint_file' = now /\ now' = now + 1

\* run_update_flow, line 54
USetCheckpoint(t) ==
    /\ task[t].status = "running" /\ task[t].stage = "load" /\ ~task[t].wrote
    /\ now < MaxTime
    /\ set_checkpoint
    /\ task' = [task EXCEPT ![t].wrote = TRUE]
    /\ stable' = IF OthersQuiet(t) THEN TRUE ELSE stable
    /\ UNCHANGED <<product, index, cli, notIndex>>

\* run_update_flow, lines 55-63
UFinish(t) ==
    /\ task[t].status = "running" /\ task[t].stage = "load" /\ task[t].wrote
    /\ task' = [task EXCEPT ![t].status = "complete", ![t].stage = "finished"]
    /\ UNCHANGED <<now, checkpoint_file, product, index, cli, stable, notIndex>>

\* database_utils.load_sqlite_to_chroma: "read_error" (sqlite3.OperationalError
\* caught, returns), "empty" (nothing selected, returns), "raised"
\* (generate_embeddings or collection.upsert raised) or "true"
DbUtilsLoadOutcomes(selected) ==
    IF selected = {} THEN {"read_error", "empty"} ELSE {"read_error", "raised", "true"}

\* main.load_command, lines 191-192
CliLoad ==
    /\ cli.pc = "idle"
    /\ LET checkpoint == main_get_checkpoint(checkpoint_file)
           selected == database_utils_select(product, checkpoint)
       IN  \E outcome \in DbUtilsLoadOutcomes(selected) :
              /\ index' = IF outcome = "true"
                          THEN Upsert(index, product, selected) ELSE index
              /\ cli' = [pc |-> IF outcome = "raised" THEN "idle" ELSE "loaded",
                         checkpoint |-> checkpoint, load |-> outcome, wrote |-> FALSE]
    /\ UNCHANGED <<now, checkpoint_file, product, task, stable, notIndex>>

\* main.load_command, line 193: main.set_checkpoint
CliSetCheckpoint ==
    /\ cli.pc = "loaded"
    /\ now < MaxTime
    /\ set_checkpoint
    /\ cli' = [cli EXCEPT !.pc = "idle", !.wrote = TRUE]
    /\ stable' = IF OthersQuiet("cli") THEN TRUE ELSE stable
    /\ UNCHANGED <<product, index, task, notIndex>>

NextIndex ==
    \/ Scrape
    \/ Enrich
    \/ PreFetch
    \/ \E t \in Tasks : StartUpdate(t)
    \/ \E t \in Tasks : UFetch(t)
    \/ \E t \in Tasks : UScrape(t)
    \/ \E t \in Tasks : ULoad(t)
    \/ \E t \in Tasks : USetCheckpoint(t)
    \/ \E t \in Tasks : UFinish(t)
    \/ CliLoad
    \/ CliSetCheckpoint

(***************************************************************************)
(* Batch embedding stage of the ETL pipeline                               *)
(***************************************************************************)
BATCH_SIZE == 2     \* 512 in the source, scaled to the modelled table
EmbedSkus == {"", "e1", "e2", "e3", "e4"}

\* lists without repetition over a set: the order in which SELECT sku yields
Perms(S) == {l \in UNION {[1..k -> S] : k \in 0..Cardinality(S)} :
                \A i, j \in 1..Len(l) : i # j => l[i] # l[j]}

Range(l) == {l[i] : i \in 1..Len(l)}

\* processed_skus[i:i + BATCH_SIZE], i counted from 0
Batch(processed_skus, i) == SubSeq(processed_skus, i + 1, Min(i + BATCH_SIZE, Len(processed_skus)))

\* the rows of one batch: SELECT ... WHERE sku IN (batch)
RowsToEmbed(rows, sku_batch) == {s \in Range(sku_batch) : rows[s].present}

\* the check of lines 301-305
HasEmptySku(rows_to_embed) == "" \in rows_to_embed

MaxPg == 3          \* rows of dzcontent.product
MaxArgLimit == 2    \* largest --limit
PgSkus == {"e1", "e2"}

\* dzcontent.product as the list of its tokens in table order; a token may
\* belong to more than one product row
PostgresTables == UNION {[1..k -> PgSkus] : k \in 0..MaxPg}

\* argparse: --force, --all, --limit (0 when not given), --phase
Args == [force : BOOLEAN, all : BOOLEAN, limit : 0..MaxArgLimit,
         phase : {"etl", "embed", "all"}]

IdleEmbed == [status |-> "idle", skus |-> <<>>, i |-> 0,
              index0 |-> <<>>, fault |-> {}, force |-> FALSE,
              limit |-> 0, phase |-> "all",
              upserts |-> [s \in EmbedSkus |-> 0]]

\* the staging table after the ETL phase has stored the products of skus
Staged(skus) == [s \in EmbedSkus |-> IF s \in Range(skus) THEN Row(2, 0, TRUE) ELSE NoRow]

\* the lists a set can be read out as: list(set(...)), SELECT without ORDER BY
RECURSIVE SetOrders(_)
SetOrders(S) == IF S = {} THEN {<<>>}
                ELSE UNION {{<<x>> \o l : l \in SetOrders(S \ {x})} : x \in S}

\* get_all_skus_from_sqlite: SELECT sku, in whatever order the table yields
get_all_skus_from_sqlite(rows) == SetOrders({s \in EmbedSkus : rows[s].present})

\* DazDBAnalyzer.get_all_skus: SELECT token, one entry per product row
get_all_skus(postgres) == postgres

\* DazDBAnalyzer.get_products_by_sku_list: for each batch of skus the product
\* rows whose token is IN the batch; the value kept of a product is its sku
RECURSIVE ProductsFrom(_, _, _)
ProductsFrom(postgres, skus, i) ==
    IF i >= Len(skus) THEN <<>>
    ELSE SelectSeq(postgres, LAMBDA token : token \in Range(Batch(skus, i)))
            \o ProductsFrom(postgres, skus, i + BATCH_SIZE)
get_products_by_sku_list(postgres, skus) == ProductsFrom(postgres, skus, 0)

\* if args.limit: l = l[:args.limit]
ApplyLimit(l, limit) == IF limit # 0 THEN PySlice(l, 0, limit) ELSE l

\* INSERT OR REPLACE of every product of the ETL loop
EtlStore(rows, products) ==
    [s \in EmbedSkus |-> IF s \in Range(products) THEN Row(2, 0, TRUE) ELSE rows[s]]

InitEmbed ==
    /\ \E l \in Perms(EmbedSkus) :
          /\ enriched = Staged(l)
          /\ \E old \in {NoRow, Row(1, 0, TRUE)} :
                /\ index = [s \in EmbedSkus |-> old]
                /\ embed = [IdleEmbed EXCEPT !.index0 = index]
    /\ now = StartTime
    /\ checkpoint_file = NoFile
    /\ product = [s \in Skus |-> NoRow]
    /\ task = [t \in Tasks |-> NoTask]
    /\ cli = IdleCli
    /\ stable = FALSE

\* main, lines 367-520, up to the entry of generate_and_store_embeddings,
\* run once on a staging table and a collection left by earlier runs:
\* with --force the staging database is removed, the collection is not
\* touched; the SKUs to process are chosen and cut by --limit; the ETL phase
\* stores every product and collects its sku; the embed phase takes those
\* SKUs, or all SKUs of the staging table when there are none
EmbedStart ==
    /\ embed.status = "idle"
    /\ \E args \in Args, postgres \in PostgresTables, figures_ok \in BOOLEAN :
          LET removed == IF args.force THEN Staged(<<>>) ELSE enriched
              postgres_skus == get_all_skus(postgres)
              etl == args.phase \in {"etl", "all"}
              sqlite_skus == {s \in EmbedSkus : removed[s].present}
              started == [embed EXCEPT !.force = args.force, !.limit = args.limit,
                                       !.phase = args.phase]
          IN  \E new_skus \in SetOrders(Range(postgres_skus) \ sqlite_skus) :
                 LET skus_to_process ==
                         ApplyLimit(IF args.all \/ args.force THEN postgres_skus
                                    ELSE new_skus, args.limit)
                     products == IF etl /\ figures_ok
                                 THEN get_products_by_sku_list(postgres, skus_to_process)
                                 ELSE <<>>
                     successfully_processed_skus == products
                     stored == EtlStore(removed, products)
                 IN  IF skus_to_process = <<>> \/ (etl /\ ~figures_ok)
                     THEN \* return (lines 408-410, 428-431)
                          /\ embed' = [started EXCEPT !.status = "exit"]
                          /\ enriched' = removed
                     ELSE IF args.phase = "etl"
                     THEN /\ embed' = [started EXCEPT !.status = "etl"]
                          /\ enriched' = stored
                     ELSE \E all_skus \in get_all_skus_from_sqlite(stored) :
                             LET skus_to_embed ==
                                     ApplyLimit(IF Len(successfully_processed_skus) > 0
                                                THEN successfully_processed_skus
                                                ELSE all_skus, args.limit)
                             IN  /\ embed' = [started EXCEPT
                                                 !.status = IF skus_to_embed = <<>>
                                                            THEN "exit" ELSE "running",
                                                 !.skus = skus_to_embed]
                                 /\ enriched' = stored
    /\ UNCHANGED <<indexVars, notEmbed>>

\* the status after the batch at position i has been stored
AfterBatch(processed_skus, i) ==
    IF i + BATCH_SIZE >= Len(processed_skus) THEN "done" ELSE "running"

\* the batch is skipped and the loop goes on
OnUpsertError_Continue(e) ==
    [e EXCEPT !.i = @ + BATCH_SIZE, !.status = AfterBatch(e.skus, e.i)]

\* except Exception: return False (lines 359-361)
OnUpsertError(e) == [e EXCEPT !.status = "false"]

\* one iteration of the loop of lines 276-361
EmbedBatch ==
    /\ embed.status = "running"
    /\ LET sku_batch == Batch(embed.skus, embed.i)
           rows_to_embed == RowsToEmbed(enriched, sku_batch)
       IN  IF HasEmptySku(rows_to_embed)
           THEN \* raise ValueError("SKU cannot be empty string")
                /\ embed' = [embed EXCEPT !.status = "raised", !.fault = @ \cup {embed.i}]
                /\ UNCHANGED index
           ELSE IF rows_to_embed = {}
           THEN \* continue
                /\ embed' = [embed EXCEPT !.i = @ + BATCH_SIZE,
                                          !.status = AfterBatch(embed.skus, embed.i)]
                /\ UNCHANGED index
           ELSE \/ \* generate_embeddings raised
                   /\ embed' = [embed EXCEPT !.status = "raised", !.fault = @ \cup {embed.i}]
                   /\ UNCHANGED index
                \/ \* collection.upsert raised
                   /\ embed' = [OnUpsertError(embed) EXCEPT !.fault = @ \cup {embed.i}]
                   /\ UNCHANGED index
                \/ /\ index' = Upsert(index, enriched, rows_to_embed)
                   /\ embed' = [embed EXCEPT !.i = @ + BATCH_SIZE,
                                             !.status = AfterBatch(embed.skus, embed.i),
                                             !.upserts = [s \in EmbedSkus |->
                                                 IF s \in rows_to_embed THEN @[s] + 1 ELSE @[s]]]
    /\ UNCHANGED <<enriched, now, checkpoint_file, product, task, cli, stable, notEmbed>>

NextEmbed == EmbedStart \/ EmbedBatch

(***************************************************************************)
(* ETL transform: compatibility and category heuristics                    *)
(***************************************************************************)
MaxStrLen == 2      \* longest product_compatibility, product_name, description
Chars == {"g", "G", "m"}

\* str.lower() on one character and on a string
LowerChar(c) == IF c = "G" THEN "g" ELSE c
Lower(str) == [i \in 1..Len(str) |-> LowerChar(str[i])]

\* Python `needle in hay` on strings
Contains(hay, needle) ==
    \E i \in 0..(Len(hay) - Len(needle)) : SubSeq(hay, i + 1, i + Len(needle)) = needle

Strings == ListsUpTo(Chars, MaxStrLen)
OptStrings == {None} \cup {Some(str) : str \in Strings}

\* .figures.json: the canonical figure names
FigureNames == << <<"G">>, <<"g", "m">> >>
\* the orders in which the file can list them
FigureLists == SetOrders(Range(FigureNames))

\* the figures of the list whose lower-cased name occurs in the lower-cased text
FiguresIn(text, figure_names) ==
    {figure_names[k] : k \in {j \in 1..Len(figure_names) :
                                 Contains(Lower(text), Lower(figure_names[j]))}}

\* Python's order of str: by code point, upper case before lower case
CharRank(c) == CASE c = "G" -> 1 [] c = "g" -> 2 [] c = "m" -> 3
RECURSIVE StrLess(_, _)
StrLess(v, w) ==
    IF v = <<>> THEN w # <<>>
    ELSE IF w = <<>> THEN FALSE
    ELSE IF CharRank(Head(v)) # CharRank(Head(w)) THEN CharRank(Head(v)) < CharRank(Head(w))
    ELSE StrLess(Tail(v), Tail(w))

\* ', '.join(sorted(list(found_figures))): the names in sorted order
RECURSIVE JoinSorted(_)
JoinSorted(found_figures) ==
    IF found_figures = {} THEN <<>>
    ELSE LET least == CHOOSE w \in found_figures :
                         \A v \in found_figures \ {w} : StrLess(w, v)
         IN  <<least>> \o JoinSorted(found_figures \ {least})

ProductData ==
    [product_compatibility : OptStrings, product_name : OptStrings, description : Strings]

\* the name is searched whether or not the formal string gave a figure
name_heuristic_Always(h1, name, figure_names) ==
    IF Truthy(name) THEN h1 \cup FiguresIn(name.val, figure_names) ELSE h1

\* heuristic 2, lines 569-575
name_heuristic(h1, name, figure_names) ==
    IF h1 = {} /\ Truthy(name) THEN FiguresIn(name.val, figure_names) ELSE h1

determine_compatibility(product_data, figure_names) ==
    LET compat_str == product_data.product_compatibility
        name == product_data.product_name
        description == product_data.description
        h1 == IF Truthy(compat_str) THEN FiguresIn(compat_str.val, figure_names) ELSE {}
        h2 == name_heuristic(h1, name, figure_names)
        found_figures == IF h2 = {} /\ Len(description) > 0
                         THEN FiguresIn(description, figure_names) ELSE h2
    IN  [new_compatibility |-> JoinSorted(found_figures),
         tags_to_append |-> IF Truthy(compat_str) THEN compat_str.val ELSE <<>>]

NoCompatCall ==
    [done |-> FALSE,
     product_data |-> [product_compatibility |-> None, product_name |-> None,
                       description |-> <<>>],
     figure_names |-> <<>>,
     out |-> [new_compatibility |-> <<>>, tags_to_append |-> <<>>]]

\* determine_compatibility(product_data, figure_names) on any product record
DetermineCompatibility ==
    /\ ~compat_call.done /\ ~category_call.done /\ ~etl_row.done /\ ~meta_call.done
    /\ \E product_data \in ProductData, figure_names \in FigureLists :
          compat_call' = [done |-> TRUE, product_data |-> product_data,
                          figure_names |-> figure_names,
                          out |-> determine_compatibility(product_data, figure_names)]
    /\ UNCHANGED <<category_call, etl_row, meta_call, notTransform>>

\* a row of DazDBAnalyzer.QUERY_BODY, the columns determine_compatibility reads
PostgresProducts == [product_compatibility : OptStrings, product_name : OptStrings]

\* product.get('description', '') on a row of QUERY_BODY
AsProductData(pg_product) ==
    [product_compatibility |-> pg_product.product_compatibility,
     product_name |-> pg_product.product_name,
     description |-> <<>>]

NoEtlRow == [done |-> FALSE,
             product |-> [product_compatibility |-> None, product_name |-> None],
             web_description |-> None, compatible_figures |-> <<>>]

\* main, lines 432-491: one product of the ETL loop; determine_compatibility
\* is called on the Postgres row (435), the page is scraped after it (444)
\* and the row is stored with new_compatibility as compatible_figures (477)
EtlProduct ==
    /\ ~compat_call.done /\ ~category_call.done /\ ~etl_row.done /\ ~meta_call.done
    /\ \E pg_product \in PostgresProducts, web_description \in OptStrings :
          LET refactored_data == determine_compatibility(AsProductData(pg_product), FigureNames)
          IN  etl_row' = [done |-> TRUE, product |-> pg_product,
                          web_description |-> web_description,
                          compatible_figures |-> refactored_data.new_compatibility]
    /\ UNCHANGED <<compat_call, category_call, meta_call, notTransform>>

MaxPathLen == 5     \* longest content type string, counted in pieces
Separators == {"/"}
\* word pieces a content type string is made of; adjacent pieces form one word
Pieces == {"Follower", "Wardrobe", "Pant", "Hair", "hair"}
PathStrings == ListsUpTo(Separators \cup Pieces, MaxPathLen)

\* str.lower() on a word piece
LowerPiece(a) ==
    CASE a = "Follower" -> "follower"
      [] a = "Wardrobe" -> "wardrobe"
      [] a = "Pant" -> "pant"
      [] a = "Hair" -> "hair"
      [] OTHER -> a
LowerWord(w) == [i \in 1..Len(w) |-> LowerPiece(w[i])]

\* the members of IGNORE_WORDS and PRIORITY_WORDS that the pieces can spell
IGNORE_WORDS == { <<"follower">> }
PRIORITY_WORDS == { <<"hair">> }

\* re.split(r'[^a-zA-Z0-9]+', s): a run of separators splits once, a leading
\* or trailing run leaves an empty string
RECURSIVE SplitFrom(_, _, _)
SplitFrom(str, i, cur) ==
    IF i > Len(str) THEN <<cur>>
    ELSE IF str[i] \in Separators
         THEN IF i > 1 /\ str[i - 1] \in Separators
              THEN SplitFrom(str, i + 1, cur)
              ELSE <<cur>> \o SplitFrom(str, i + 1, <<>>)
         ELSE SplitFrom(str, i + 1, Append(cur, str[i]))
re_split(str) == SplitFrom(str, 1, <<>>)

\* valid_words of line 160
ValidWords(words) ==
    LET lowered == [i \in 1..Len(words) |-> LowerWord(words[i])]
    IN  SelectSeq(lowered, LAMBDA w : w # <<>> /\ w \notin IGNORE_WORDS)

\* the priority scan finds nothing
first_priority_None(valid_words) == 0

\* next((word for word in valid_words if word in PRIORITY_WORDS), None):
\* the position of the word found, 0 for None
first_priority(valid_words) ==
    IF \E i \in 1..Len(valid_words) : valid_words[i] \in PRIORITY_WORDS
    THEN CHOOSE i \in 1..Len(valid_words) :
            /\ valid_words[i] \in PRIORITY_WORDS
            /\ \A j \in 1..(i - 1) : valid_words[j] \notin PRIORITY_WORDS
    ELSE 0

Count(valid_words, w) == Cardinality({i \in 1..Len(valid_words) : valid_words[i] = w})

\* Counter(valid_words).most_common(1)[0][0]: the first-inserted key among
\* those with the largest count
most_common(valid_words) ==
    valid_words[CHOOSE i \in 1..Len(valid_words) :
        /\ \A j \in 1..Len(valid_words) :
              Count(valid_words, valid_words[j]) <= Count(valid_words, valid_words[i])
        /\ \A j \in 1..(i - 1) :
              Count(valid_words, valid_words[j]) < Count(valid_words, valid_words[i])]

\* the order of Python strings on the words the pieces spell
PieceRank(a) ==
    CASE a = "follower" -> 1 [] a = "hair" -> 2 [] a = "pant" -> 3 [] a = "wardrobe" -> 4
RECURSIVE WordLess(_, _)
WordLess(v, w) ==
    IF v = <<>> THEN w # <<>>
    ELSE IF w = <<>> THEN FALSE
    ELSE IF PieceRank(Head(v)) # PieceRank(Head(w)) THEN PieceRank(Head(v)) < PieceRank(Head(w))
    ELSE WordLess(Tail(v), Tail(w))

\* sorted(list(unique_words))
RECURSIVE SortedWords(_)
SortedWords(unique_words) ==
    IF unique_words = {} THEN <<>>
    ELSE LET least == CHOOSE w \in unique_words :
                         \A v \in unique_words \ {w} : WordLess(w, v)
         IN  <<least>> \o SortedWords(unique_words \ {least})

NoCategories == [category |-> None, subcategories |-> <<>>]

determine_categories(content_type_string) ==
    IF content_type_string = <<>> THEN NoCategories
    ELSE LET valid_words == ValidWords(re_split(content_type_string))
         IN  IF valid_words = <<>> THEN NoCategories
             ELSE LET p == first_priority(valid_words)
                      primary_category == IF p # 0 THEN valid_words[p]
                                          ELSE most_common(valid_words)
                  IN  [category |-> Some(primary_category),
                       subcategories |-> SortedWords(Range(valid_words) \ {primary_category})]

NoCategoryCall == [done |-> FALSE, content_types |-> <<>>, out |-> NoCategories]

\* main, line 451: determine_categories(product.get('content_types'))
DetermineCategories ==
    /\ ~category_call.done /\ ~compat_call.done /\ ~etl_row.done /\ ~meta_call.done
    /\ \E content_type_string \in PathStrings :
          category_call' = [done |-> TRUE, content_types |-> content_type_string,
                            out |-> determine_categories(content_type_string)]
    /\ UNCHANGED <<compat_call, etl_row, meta_call, notTransform>>

\* ---- metadata of an upserted record ----
\* the columns of a staging row that become metadata
MetaKeys == {"sku", "name", "artist"}
\* the Python types a column value of sqlite3 can have, and bool
ValueTypes == {"str", "int", "float", "bool", "bytes"}
PyNone == [type |-> "NoneType", val |-> ""]
MetaValues == {PyNone} \cup [type : ValueTypes, val : {"a", "b"}]
Items == [MetaKeys -> MetaValues]

\* value is not None and isinstance(value, (str, int, float, bool))
IsScalar(value) == value.type \in {"str", "int", "float", "bool"}

\* _clean_metadata of database_utils.py and of ChromaDbManager
_clean_metadata(item) ==
    [key \in {k \in DOMAIN item : IsScalar(item[k])} |-> item[key]]

\* the dict literal of generate_and_store_embeddings, lines 311-324
etl_metadata(row) == [key \in MetaKeys |-> row[key]]

NoMetaCall == [done |-> FALSE, path |-> "", item |-> <<>>, metadata |-> <<>>]

\* database_utils.load_sqlite_to_chroma, lines 59-61
DbUtilsMetadata ==
    /\ ~compat_call.done /\ ~category_call.done /\ ~etl_row.done /\ ~meta_call.done
    /\ \E p \in Items :
          meta_call' = [done |-> TRUE, path |-> "database_utils", item |-> p,
                        metadata |-> _clean_metadata(p)]
    /\ UNCHANGED <<compat_call, category_call, etl_row, notTransform>>

\* ChromaDbManager.load_sqlite_to_chroma, lines 198-200
ManagerMetadata ==
    /\ ~compat_call.done /\ ~category_call.done /\ ~etl_row.done /\ ~meta_call.done
    /\ \E p \in Items :
          meta_call' = [done |-> TRUE, path |-> "chroma_db_manager", item |-> p,
                        metadata |-> _clean_metadata(p)]
    /\ UNCHANGED <<compat_call, category_call, etl_row, notTransform>>

\* generate_and_store_embeddings, lines 311-324 and 349-354, on a row that
\* WHERE sku IN (...) selected
EtlMetadata ==
    /\ ~compat_call.done /\ ~category_call.done /\ ~etl_row.done /\ ~meta_call.done
    /\ \E row \in {r \in Items : r["sku"].type = "str"} :
          meta_call' = [done |-> TRUE, path |-> "postgres_db_manager", item |-> row,
                        metadata |-> etl_metadata(row)]
    /\ UNCHANGED <<compat_call, category_call, etl_row, notTransform>>

NextTransform ==
    \/ DetermineCompatibility
    \/ DetermineCategories
    \/ EtlProduct
    \/ DbUtilsMetadata
    \/ ManagerMetadata
    \/ EtlMetadata

TransformIdle == /\ compat_call = NoCompatCall /\ category_call = NoCategoryCall
                 /\ etl_row = NoEtlRow /\ meta_call = NoMetaCall

(***************************************************************************)
(* Embedding model cache: get_embedding_model called from the threads of   *)
(* the server's thread pool (query requests, background update tasks)      *)
(***************************************************************************)
Threads == {"w1", "w2", "w3"}
NoModel == 0        \* _model = None

\* a thread outside get_embedding_model; made and ret name model instances
IdleCaller == [pc |-> "idle", made |-> NoModel, ret |-> NoModel]

\* model names as the pieces "mxbai" is looked for in
DefaultModel == <<"mixedbread-ai/", "mxbai", "-embed-large-v1">>
OtherModel == <<"all-MiniLM-L6-v2">>
EnvValues == {None, Some(DefaultModel), Some(OtherModel)}

\* os.getenv(name, default)
getenv(env, default) == IF env.some THEN env.val ELSE default

\* "mxbai" in model_name
IsMxbai(model_name) == \E i \in 1..Len(model_name) : model_name[i] = "mxbai"

\* the name get_embedding_model loads (line 22)
loaded_model_name(env) == getenv(env, DefaultModel)

\* the argument texts: one str or a list of str
Texts == {[list |-> FALSE, items |-> <<"q">>],
          [list |-> TRUE, items |-> <<>>],
          [list |-> TRUE, items |-> <<"q", "r">>]}

\* lines 45-54: the texts handed to model.encode, each with or without the
\* query instruction in front
prefixed_texts(env, texts, is_query) ==
    LET model_name == getenv(env, <<>>)
    IN  [i \in 1..Len(texts.items) |->
            [prefixed |-> IsMxbai(model_name) /\ is_query, text |-> texts.items[i]]]

NoEncode == [thread |-> "", is_query |-> FALSE, texts |-> <<>>, sent |-> <<>>]

InitModel ==
    /\ cached_model = NoModel
    /\ loads = 0
    /\ caller = [t \in Threads |-> IdleCaller]
    /\ env_model_name \in EnvValues
    /\ encoded = NoEncode

\* generate_embeddings, line 41: the thread enters get_embedding_model
GetModelCall(t) ==
    /\ caller[t].pc = "idle"
    /\ caller' = [caller EXCEPT ![t].pc = "test"]
    /\ UNCHANGED <<cached_model, loads, env_model_name, encoded, notModel>>

\* line 20: if _model is None
GetModelTest(t) ==
    /\ caller[t].pc = "test"
    /\ caller' = [caller EXCEPT ![t].pc = IF cached_model = NoModel THEN "construct"
                                          ELSE "return"]
    /\ UNCHANGED <<cached_model, loads, env_model_name, encoded, notModel>>

\* line 25, right-hand side: SentenceTransformer(model_name) builds an instance
GetModelConstruct(t) ==
    /\ caller[t].pc = "construct"
    /\ loads' = loads + 1
    /\ caller' = [caller EXCEPT ![t].pc = "assign", ![t].made = loads + 1]
    /\ UNCHANGED <<cached_model, env_model_name, encoded, notModel>>

\* line 25, the store into the global
GetModelAssign(t) ==
    /\ caller[t].pc = "assign"
    /\ cached_model' = caller[t].made
    /\ caller' = [caller EXCEPT ![t].pc = "return"]
    /\ UNCHANGED <<loads, env_model_name, encoded, notModel>>

\* line 27: return _model
GetModelReturn(t) ==
    /\ caller[t].pc = "return"
    /\ caller' = [caller EXCEPT ![t].pc = "done", ![t].ret = cached_model]
    /\ UNCHANGED <<cached_model, loads, env_model_name, encoded, notModel>>

\* generate_embeddings, lines 45-57, after get_embedding_model has returned
Encode(t) ==
    /\ caller[t].pc = "done"
    /\ \E texts \in Texts, is_query \in BOOLEAN :
          encoded' = [thread |-> t, is_query |-> is_query, texts |-> texts.items,
                      sent |-> prefixed_texts(env_model_name, texts, is_query)]
    /\ caller' = [caller EXCEPT ![t].pc = "encoded"]
    /\ UNCHANGED <<cached_model, loads, env_model_name, notModel>>

NextModel ==
    \/ \E t \in Threads : Encode(t)
    \/ \E t \in Threads : GetModelCall(t)
    \/ \E t \in Threads : GetModelTest(t)
    \/ \E t \in Threads : GetModelConstruct(t)
    \/ \E t \in Threads : GetModelAssign(t)
    \/ \E t \in Threads : GetModelReturn(t)

ModelIdle ==
    /\ cached_model = NoModel
    /\ loads = 0
    /\ caller = [t \in Threads |-> IdleCaller]
    /\ env_model_name = None
    /\ encoded = NoEncode

EmbedIdle == enriched = [s \in EmbedSkus |-> NoRow] /\ embed = IdleEmbed
IndexIdle == InitIndex

FilterIdle == facets = [tags |-> None, artists |-> None, categories |-> None,
                        compatible_figures |-> None]
              /\ where_clause = NoFilter /\ built = FALSE
SearchIdle == coll_exists = TRUE /\ corpus = <<>> /\ response = NoResponse

\* each machine starts with the other machines at rest
InitSpecFilter == InitFilter /\ SearchIdle /\ IndexIdle /\ EmbedIdle /\ TransformIdle /\ ModelIdle
InitSpecSearch == InitSearch /\ FilterIdle /\ IndexIdle /\ EmbedIdle /\ TransformIdle /\ ModelIdle
Init == InitIndex /\ FilterIdle /\ SearchIdle /\ EmbedIdle /\ TransformIdle /\ ModelIdle
InitSpecEmbed == InitEmbed /\ FilterIdle /\ SearchIdle /\ TransformIdle /\ ModelIdle
InitSpecTransform == TransformIdle /\ FilterIdle /\ SearchIdle /\ IndexIdle /\ EmbedIdle /\ ModelIdle
InitSpecModel == InitModel /\ FilterIdle /\ SearchIdle /\ IndexIdle /\ EmbedIdle /\ TransformIdle

SpecFilter == InitSpecFilter /\ [][NextFilter]_vars
SpecSearch == InitSpecSearch /\ [][NextSearch]_vars
Spec == Init /\ [][NextIndex]_vars
SpecEmbed == InitSpecEmbed /\ [][NextEmbed]_vars
SpecTransform == InitSpecTransform /\ [][NextTransform]_vars
SpecModel == InitSpecModel /\ [][NextModel]_vars

(***************************************************************************)
(* Properties                                                              *)
(***************************************************************************)

C3_FailedBatchStopsRun ==
    \A f \in embed.fault :
        LET earlier == {embed.skus[k] : k \in 1..f}
        IN  \A s \in EmbedSkus :
               index[s] = IF s \in earlier /\ enriched[s].present
                          THEN enriched[s] ELSE embed.index0[s]

\* the second batch held the empty SKU: the first batch is stored, a later
\* batch was waiting
C3_Witness ==
    /\ embed.status = "raised"
    /\ embed.fault = {embed.i} /\ embed.i >= BATCH_SIZE
    /\ \E k \in (embed.i + 1)..Len(embed.skus) : embed.skus[k] = "" /\ k <= embed.i + BATCH_SIZE
    /\ index[embed.skus[1]] = enriched[embed.skus[1]]
    /\ index[embed.skus[1]] # embed.index0[embed.skus[1]]
    /\ index[embed.skus[Len(embed.skus)]] = embed.index0[embed.skus[Len(embed.skus)]]

\* C4: a search against a missing collection returns the empty result with
\* limit and offset echoed, and does not raise.
C4_MissingCollectionEmptyResult ==
    (response.served /\ response.missing) =>
        /\ ~response.raised
        /\ response.total_hits = 0
        /\ response.results = <<>>
        /\ response.limit = response.req.limit
        /\ response.offset = response.req.offset

\* C5: the results list of a search has at most `limit` entries.
C5_AtMostLimitResults ==
    (response.served /\ ~response.raised) => Len(response.results) <= response.req.limit

\* C6: with sort_by = "relevance" the returned page is in ascending distance
\* order, whatever sort_order is.
C6_RelevanceKeepsDistanceOrder ==
    (response.served /\ ~response.raised /\ response.req.sort_by = "relevance") =>
        \A i \in 1..(Len(response.results) - 1) :
            response.results[i].distance <= response.results[i + 1].distance

\* a relevance page under the default descending sort_order that spans two
\* distances
C6_Witness ==
    /\ response.served /\ ~response.raised
    /\ response.req.sort_by = "relevance" /\ response.req.sort_order = "descending"
    /\ Len(response.results) >= 2
    /\ response.results[1].distance < response.results[Len(response.results)].distance

\* C7: a fetched hit is kept exactly when its distance is at most the score
\* threshold, and no returned result lies beyond the threshold.
C7_ThresholdInclusive ==
    (response.served /\ ~response.raised) =>
        /\ \A id \in response.fetched :
              id \in response.kept <=> corpus[id].distance <= response.req.score_threshold
        /\ \A i \in 1..Len(response.results) :
              response.results[i].distance <= response.req.score_threshold

\* a hit at the threshold is kept and returned, a hit beyond it is dropped
C7_Witness ==
    /\ response.served /\ ~response.raised
    /\ \E id \in response.kept : corpus[id].distance = response.req.score_threshold
    /\ \E id \in response.fetched \ response.kept :
          corpus[id].distance > response.req.score_threshold
    /\ \E i \in 1..Len(response.results) :
          response.results[i].distance = response.req.score_threshold

\* the records of the collection that satisfy the request's facets and lie
\* within its threshold
TrueMatches(req) ==
    {i \in 1..Len(corpus) :
        /\ (Truthy(req.tags) => \E k \in 1..Len(req.tags.val) : req.tags.val[k] \in corpus[i].metadata.tags)
        /\ corpus[i].distance <= req.score_threshold}

\* C8: total_hits counts the fetched hits within the threshold before
\* pagination: it is at least the page length, at most the true number of
\* matching records, and equal to it when that number fits the over-fetch.
C8_TotalHitsPostFilterPrePage ==
    (response.served /\ ~response.raised) =>
        LET req == response.req
            T == Cardinality(TrueMatches(req))
        IN  /\ response.total_hits =
                 Cardinality({id \in response.fetched : corpus[id].distance <= req.score_threshold})
            /\ response.total_hits >= Len(response.results)
            /\ response.total_hits <= T
            /\ (T <= (req.offset + req.limit) * 5 + 20 => response.total_hits = T)

\* four records within threshold 1, limit 5, offset 0: four hits, four results
C8_Witness ==
    /\ response.served /\ ~response.raised
    /\ Len(corpus) = 4 /\ \A i \in 1..4 : corpus[i].distance <= 1
    /\ response.req.limit = 5 /\ response.req.offset = 0
    /\ response.req.score_threshold = 1 /\ ~Truthy(response.req.tags)
    /\ response.total_hits = 4 /\ Len(response.results) = 4

FacetFields == {"tags", "artist", "category", "compatible_figures"}
FacetOf(field) ==
    CASE field = "tags" -> facets.tags
      [] field = "artist" -> facets.artists
      [] field = "category" -> facets.categories
      [] field = "compatible_figures" -> facets.compatible_figures

\* the fields named by the leaves of a filter
LeafFields(w) ==
    CASE w.kind = "none" -> {}
      [] w.kind = "leaf" -> {w.field}
      [] OTHER -> UNION {IF w.children[i].kind = "leaf" THEN {w.children[i].field}
                         ELSE {w.children[i].children[j].field :
                                  j \in 1..Len(w.children[i].children)} :
                         i \in 1..Len(w.children)}

\* C9: when every facet is None or empty the result is "no filter"; a facet
\* that is None or empty puts no predicate into the filter.
C9_EmptyFacetsNoFilter ==
    built =>
        /\ (\A f \in FacetFields : ~Truthy(FacetOf(f))) => where_clause = NoFilter
        /\ \A f \in FacetFields : ~Truthy(FacetOf(f)) => f \notin LeafFields(where_clause)
        /\ where_clause.kind = "and" => where_clause.children # <<>>

\* all four facets empty, two of them as the empty list
C9_Witness ==
    /\ built
    /\ facets.tags = Some(<<>>) /\ facets.artists = None
    /\ facets.categories = Some(<<>>) /\ facets.compatible_figures = None
    /\ where_clause = NoFilter

\* the group a filter holds for a field: the top node itself or a child of $and
GroupFor(w, f) ==
    IF w.kind = "and"
    THEN {w.children[i] : i \in {j \in 1..Len(w.children) : f \in LeafFields(w.children[j])}}
    ELSE IF f \in LeafFields(w) THEN {w} ELSE {}

\* C10: a facet list of length 1 compiles to its bare leaf, a single non-empty
\* facet is returned without $and, and every $or and $and has two children
\* or more.
C10_StructurallyMinimal ==
    built =>
        /\ \A f \in FacetFields :
              (FacetOf(f).some /\ Len(FacetOf(f).val) = 1) =>
                  GroupFor(where_clause, f) =
                      {Leaf(f, IF f = "category" THEN "$eq" ELSE "$contains", FacetOf(f).val[1])}
        /\ Cardinality({f \in FacetFields : Truthy(FacetOf(f))}) = 1 => where_clause.kind # "and"
        /\ where_clause.kind \in {"or", "and"} => Len(where_clause.children) >= 2
        /\ \A i \in 1..Len(where_clause.children) :
              /\ where_clause.children[i].kind \in {"or", "and"} =>
                    Len(where_clause.children[i].children) >= 2
              /\ \A j \in 1..Len(where_clause.children[i].children) :
                    where_clause.children[i].children[j].kind = "leaf"

\* one facet of length 1 next to one of length 2
C10_Witness ==
    /\ built
    /\ facets.tags = Some(<<"a">>) /\ facets.categories = Some(<<"a", "b">>)
    /\ facets.artists = None /\ facets.compatible_figures = Some(<<>>)
    /\ where_clause = AndNode(<<Leaf("tags", "$contains", "a"),
                                OrNode(<<Leaf("category", "$eq", "a"),
                                         Leaf("category", "$eq", "b")>>)>>)

\* C11: with a non-empty formal compatibility string the result of
\* determine_compatibility is the same for every product name and description.
C11_FormalStringAloneDecides ==
    (compat_call.done /\ Truthy(compat_call.product_data.product_compatibility)) =>
        \A n \in OptStrings, d \in Strings :
            determine_compatibility([compat_call.product_data EXCEPT
                                        !.product_name = n, !.description = d],
                                    compat_call.figure_names)
                = compat_call.out

\* the words that survive tokenising, lower-casing and the ignore set
Surviving(content_type_string) == ValidWords(re_split(content_type_string))
FirstAt(ws, w) == CHOOSE i \in 1..Len(ws) : ws[i] = w /\ \A j \in 1..(i - 1) : ws[j] # w

\* C12: determine_categories returns (None, []) when no word survives;
\* otherwise the category is the first surviving priority word, or without
\* one the most frequent surviving word with ties going to the earliest, and
\* the subcategories are the other distinct surviving words in sorted order.
C12_CategoryAndSubcategories ==
    category_call.done =>
        LET ws == Surviving(category_call.content_types)
            out == category_call.out
            prio == {i \in 1..Len(ws) : ws[i] \in PRIORITY_WORDS}
        IN  IF ws = <<>> THEN out = NoCategories
            ELSE /\ out.category.some
                 /\ LET c == out.category.val
                    IN  /\ c \in Range(ws)
                        /\ prio # {} => \E i \in prio : ws[i] = c /\ \A j \in prio : i <= j
                        /\ prio = {} =>
                              \A w \in Range(ws) \ {c} :
                                 \/ Count(ws, w) < Count(ws, c)
                                 \/ Count(ws, w) = Count(ws, c) /\ FirstAt(ws, c) < FirstAt(ws, w)
                        /\ Range(out.subcategories) = Range(ws) \ {c}
                        /\ \A i \in 1..(Len(out.subcategories) - 1) :
                              WordLess(out.subcategories[i], out.subcategories[i + 1])

\* "Follower/Wardrobe/Pant": follower is ignored, wardrobe and pant tie and
\* wardrobe comes first
C12_Witness ==
    /\ category_call.done
    /\ category_call.content_types = <<"Follower", "/", "Wardrobe", "/", "Pant">>
    /\ category_call.out = [category |-> Some(<<"wardrobe">>),
                            subcategories |-> << <<"pant">> >>]

\* C13: the embedding model is constructed at most once and every caller gets
\* the same instance.
C13_ModelLoadedOnce ==
    /\ loads <= 1
    /\ \A t, u \in Threads :
          (caller[t].pc \in {"done", "encoded"} /\ caller[u].pc \in {"done", "encoded"})
              => caller[t].ret = caller[u].ret

\* C14: the checkpoint file changes only in the step in which a run writes
\* it after its load stage (run_update_flow line 54, load_command line 193).
C14_SingleWriter ==
    [][checkpoint_file' # checkpoint_file =>
          \/ \E t \in Tasks : task[t].stage = "load" /\ ~task[t].wrote /\ task'[t].wrote
          \/ cli.pc = "loaded" /\ cli'.wrote]_vars

\* C15: after a run with force the index holds exactly the records that run
\* upserted and nothing from before it.
C15_ForceLeavesOnlyNewRecords ==
    (embed.force /\ embed.status = "done" /\ embed.skus # <<>>) =>
        \A s \in EmbedSkus :
            index[s] = IF s \in Range(embed.skus) /\ enriched[s].present
                       THEN enriched[s] ELSE NoRow

\* C16: a reader that finds no checkpoint file works with the epoch.
C16_AbsentCheckpointIsEpoch ==
    [][checkpoint_file = NoFile =>
          /\ \A t \in Tasks :
                (task[t].stage = "fetch" /\ task'[t].stage = "scrape"
                    /\ task'[t].status = "running") => task'[t].checkpoint = Epoch
          /\ (cli.pc = "idle" /\ cli' # cli) => cli'.checkpoint = Epoch]_vars

\* the rows the claimed extraction predicate selects for a checkpoint
Extracted(rows, checkpoint) ==
    {s \in Skus : /\ rows[s].present
                  /\ (rows[s].lu > checkpoint \/ (rows[s].ea # 0 /\ rows[s].ea > checkpoint))
                  /\ rows[s].text}

StageRank(stage) ==
    CASE stage = "none" -> 0 [] stage = "start" -> 1 [] stage = "fetch" -> 2
      [] stage = "scrape" -> 3 [] stage = "load" -> 4 [] stage = "finished" -> 5

C21_NoSkuUpsertedTwice ==
    \A s \in EmbedSkus : embed.upserts[s] <= 1

\* C29: a run with --phase embed and a non-empty staging table reaches the
\* embedding stage with all SKUs of the staging table, cut by --limit, also
\* when the source holds no SKU that is new to the staging table.
C29_EmbedPhaseUsesStagedSkus ==
    [][(embed.status = "idle" /\ embed'.status # "idle"
         /\ embed'.phase = "embed" /\ ~embed'.force
         /\ \E s \in EmbedSkus : enriched[s].present)
       => /\ embed'.status = "running"
          /\ \E l \in get_all_skus_from_sqlite(enriched) :
                embed'.skus = ApplyLimit(l, embed'.limit)]_vars

\* the known figures a text mentions
Mentioned(text) ==
    {f \in Range(FigureNames) : Contains(Lower(text), Lower(f))}
OptMentioned(opt) == IF opt.some THEN Mentioned(opt.val) ELSE {}

\* C26: determine_compatibility returns the known figures mentioned by the
\* first of formal compatibility string, product name and description that
\* mentions any, and nothing if none does; the result is sorted, without
\* duplicates, and the same for every order of the figure list.
C26_FirstSourceWithHits ==
    compat_call.done =>
        LET pd == compat_call.product_data
            out == compat_call.out.new_compatibility
            expected == IF OptMentioned(pd.product_compatibility) # {}
                        THEN OptMentioned(pd.product_compatibility)
                        ELSE IF OptMentioned(pd.product_name) # {}
                        THEN OptMentioned(pd.product_name)
                        ELSE Mentioned(pd.description)
        IN  /\ Range(out) = expected
            /\ \A i, j \in 1..Len(out) : i < j => StrLess(out[i], out[j])
            /\ \A l \in FigureLists : determine_compatibility(pd, l).new_compatibility = out

\* the formal string names one figure, the name names both, the list is in
\* reverse sorted order: only the figure of the formal string is returned
C26_Witness ==
    /\ compat_call.done
    /\ compat_call.figure_names = << <<"g", "m">>, <<"G">> >>
    /\ compat_call.product_data.product_compatibility = Some(<<"G">>)
    /\ compat_call.product_data.product_name = Some(<<"g", "m">>)
    /\ compat_call.out.new_compatibility = << <<"G">> >>

\* C30: in the ETL phase a product whose formal compatibility string and name
\* mention no known figure and whose scraped description mentions one is
\* stored with that figure among its compatible_figures.
C30_ScrapedDescriptionReachesCompatibility ==
    (/\ etl_row.done
     /\ OptMentioned(etl_row.product.product_compatibility) = {}
     /\ OptMentioned(etl_row.product.product_name) = {})
        => OptMentioned(etl_row.web_description) \subseteq Range(etl_row.compatible_figures)

\* C22: on every indexing path the metadata handed to the upsert holds
\* exactly the fields of the staging row whose value is a non-null str, int,
\* float or bool, each with its value unchanged.
C22_MetadataOnlyScalars ==
    meta_call.done =>
        /\ DOMAIN meta_call.metadata =
              {k \in DOMAIN meta_call.item :
                  meta_call.item[k].type \in {"str", "int", "float", "bool"}}
        /\ \A k \in DOMAIN meta_call.metadata : meta_call.metadata[k] = meta_call.item[k]

\* the groups a filter is the conjunction of, and the leaves a group is the
\* disjunction of; a single group and a single leaf stand for themselves
GroupsOf(w) == IF w.kind = "none" THEN <<>>
               ELSE IF w.kind = "and" THEN w.children ELSE <<w>>
LeavesOf(g) == IF g.kind = "or" THEN g.children ELSE <<g>>
FacetOrder == <<"tags", "artist", "category", "compatible_figures">>

\* C23: the filter is the conjunction of one group per non-empty facet, in
\* the order tags, artist, category, compatible_figures; each group is the
\* disjunction of one leaf per value in list order, with $eq for category and
\* $contains for the other fields; the arguments are left as they were.
C23_AndOfOrGroups ==
    [][built' =>
         LET gs == GroupsOf(where_clause')
             fs == SelectSeq(FacetOrder, LAMBDA f : Len(FacetOf(f).val) > 0)
         IN  /\ facets' = facets
             /\ Len(gs) = Len(fs)
             /\ \A i \in 1..Len(gs) :
                   /\ gs[i].kind \in {"or", "leaf"}
                   /\ LeavesOf(gs[i]) =
                         [j \in 1..Len(FacetOf(fs[i]).val) |->
                             Leaf(fs[i],
                                  IF fs[i] = "category" THEN "$eq" ELSE "$contains",
                                  FacetOf(fs[i]).val[j])]]_vars

\* three facets, the values of tags in the order b, a
C23_Witness ==
    /\ built
    /\ facets.tags = Some(<<"b", "a">>) /\ facets.artists = None
    /\ facets.categories = Some(<<"a">>) /\ facets.compatible_figures = Some(<<"a", "b">>)
    /\ where_clause = AndNode(<<OrNode(<<Leaf("tags", "$contains", "b"),
                                         Leaf("tags", "$contains", "a")>>),
                                Leaf("category", "$eq", "a"),
                                OrNode(<<Leaf("compatible_figures", "$contains", "a"),
                                         Leaf("compatible_figures", "$contains", "b")>>)>>)

\* C24: with sort_by naming a metadata field the sort completes for every
\* hit set and the page is in the order of that field's value, ascending or
\* descending as sort_order says, hits with equal values in ascending
\* distance order.
C24_FieldSortStableAndTotal ==
    (/\ response.served /\ ~response.missing
     /\ response.req.sort_by # "relevance"
     /\ response.req.limit >= 0 /\ response.req.offset >= 0)
        => /\ ~response.raised
           /\ \A i \in 1..(Len(response.results) - 1) :
                 LET a == response.results[i]
                     b == response.results[i + 1]
                     ka == SortKey(a, response.req.sort_by)
                     kb == SortKey(b, response.req.sort_by)
                 IN  /\ response.req.sort_order = "ascending" => ka <= kb
                     /\ response.req.sort_order = "descending" => ka >= kb
                     /\ ka = kb => a.id < b.id

\* the complete list of the records that satisfy the request's facets and lie
\* within its threshold, nearest first
AllValid(req) == SelectSeq(corpus, LAMBDA r : r.id \in TrueMatches(req))

\* C25: with limit >= 0, offset >= 0 and sort_by "relevance" the page is the
\* positions offset .. offset + limit - 1 of the complete ascending-distance
\* list of the matching records within the threshold: the over-fetch of
\* (offset + limit) * 5 + 20 cuts off nothing the page needs.
C25_OverFetchCoversPage ==
    (/\ response.served /\ ~response.missing /\ ~response.raised
     /\ response.req.sort_by = "relevance"
     /\ response.req.limit >= 0 /\ response.req.offset >= 0)
        => LET all == AllValid(response.req)
               first == response.req.offset + 1
               last == Min(response.req.offset + response.req.limit, Len(all))
           IN  response.results = SubSeq(all, first, last)

\* the second page of one: more than one valid record, one untagged record
\* skipped by the facet filter
C25_Witness ==
    /\ response.served /\ ~response.missing /\ ~response.raised
    /\ response.req.sort_by = "relevance"
    /\ response.req.limit = 1 /\ response.req.offset = 1
    /\ Truthy(response.req.tags)
    /\ corpus # <<>> /\ corpus[1].metadata.tags = {}
    /\ Len(response.results) = 1
    /\ response.results[1] = AllValid(response.req)[2]

\* C27: for a fixed collection, facets, threshold and sort settings
\* total_hits is the same for every limit and offset.
C27_TotalHitsIndependentOfPage ==
    (/\ response.served /\ ~response.missing /\ ~response.raised
     /\ response.req.limit >= 0 /\ response.req.offset >= 0)
        => \A l \in 0..MaxLimit, o \in 0..MaxOffset :
              LET other == SearchBody(corpus, [response.req EXCEPT !.limit = l, !.offset = o])
              IN  ~other.raised => other.total_hits = response.total_hits

\* C28: whenever the loaded model is an mxbai model, a query call hands every
\* text to the model with the query instruction in front and a document call
\* hands every text over as it is.
C28_QueryPrefixMatchesModel ==
    (encoded.thread # "" /\ IsMxbai(loaded_model_name(env_model_name))) =>
        \A i \in 1..Len(encoded.sent) :
            /\ encoded.sent[i].prefixed = encoded.is_query
            /\ encoded.sent[i].text = encoded.texts[i]

====
